---------------------------- MODULE Spec2Model ----------------------------
(***************************************************************************)
(* A model of the ezty crate: the name prettifier (pretty_impl.rs,         *)
(* pretty.expr.rs), the type identities TypeId / NonStaticTypeId, the      *)
(* handles Ty and LTy (lib.rs) and the AnyDebug capability (any_debug.rs). *)
(*                                                                         *)
(* A &str is a sequence of one-character strings (all names are ASCII, so  *)
(* byte offsets and character offsets coincide).  An Option is a sequence  *)
(* of length 0 (None) or 1 (Some).                                         *)
(***************************************************************************)
EXTENDS Integers, Sequences, FiniteSets, TLC

VARIABLES
    name, out, npieces,      \* pretty: the input, Option of the output, pieces appended
    a, b, res,               \* two Ty slots (Option<Ty>) and the last operation's result
    la, lb, lres,            \* two LTy slots (Option<LTy>) and the last operation's result
    handle, got, cast        \* an erased value, the last get_ty() and the last downcast

vars == <<name, out, npieces, a, b, res, la, lb, lres, handle, got, cast>>

prettyVars == <<name, out, npieces>>
tyVars     == <<a, b, res>>
ltyVars    == <<la, lb, lres>>
anyVars    == <<handle, got, cast>>

-----------------------------------------------------------------------------
(* Bounds of the model.                                                    *)

\* how many pieces an input name of SpecPretty is concatenated from
MaxPieces == 2
\* how many distinct code addresses the build hands out to NonStaticTypeId::of::<T>
NumAddrs == 2
\* erased values range over 0..MaxVal
MaxVal == 1

-----------------------------------------------------------------------------
(* Option<T>                                                               *)

None == <<>>
Some(x) == <<x>>
is_some(o) == Len(o) = 1
unwrap(o) == o[1]

-----------------------------------------------------------------------------
(* pretty.expr.rs: the (prefix, alias) table, in declaration order.        *)

PrettyTable ==
    << << <<"a", "l", "l", "o", "c", ":", ":", "b", "o", "x", "e", "d", ":", ":">>, <<"B", "o", "x">> >>,
       << <<"a", "l", "l", "o", "c", ":", ":", "c", "o", "l", "l", "e", "c", "t", "i", "o", "n", "s", ":", ":", "b", "i", "n", "a", "r", "y", "_", "h", "e", "a", "p", ":", ":">>, <<"B", "i", "n", "a", "r", "y", "H", "e", "a", "p">> >>,
       << <<"a", "l", "l", "o", "c", ":", ":", "c", "o", "l", "l", "e", "c", "t", "i", "o", "n", "s", ":", ":", "b", "t", "r", "e", "e", ":", ":", "m", "a", "p", ":", ":">>, <<"B", "T", "r", "e", "e", "M", "a", "p">> >>,
       << <<"a", "l", "l", "o", "c", ":", ":", "c", "o", "l", "l", "e", "c", "t", "i", "o", "n", "s", ":", ":", "b", "t", "r", "e", "e", ":", ":", "s", "e", "t", ":", ":">>, <<"B", "T", "r", "e", "e", "S", "e", "t">> >>,
       << <<"a", "l", "l", "o", "c", ":", ":", "c", "o", "l", "l", "e", "c", "t", "i", "o", "n", "s", ":", ":", "l", "i", "n", "k", "e", "d", "_", "l", "i", "s", "t", ":", ":">>, <<"L", "i", "n", "k", "e", "d", "L", "i", "s", "t">> >>,
       << <<"a", "l", "l", "o", "c", ":", ":", "c", "o", "l", "l", "e", "c", "t", "i", "o", "n", "s", ":", ":", "v", "e", "c", "_", "d", "e", "q", "u", "e", ":", ":">>, <<"V", "e", "c", "D", "e", "q", "u", "e">> >>,
       << <<"a", "l", "l", "o", "c", ":", ":", "s", "y", "n", "c", ":", ":">>, <<"A", "r", "c">> >>,
       << <<"a", "l", "l", "o", "c", ":", ":", "v", "e", "c", ":", ":">>, <<"V", "e", "c">> >>,
       << <<"c", "o", "r", "e", ":", ":", "c", "e", "l", "l", ":", ":">>, <<"C", "e", "l", "l">> >>,
       << <<"c", "o", "r", "e", ":", ":", "c", "e", "l", "l", ":", ":">>, <<"R", "e", "f", "C", "e", "l", "l">> >>,
       << <<"c", "o", "r", "e", ":", ":", "o", "p", "t", "i", "o", "n", ":", ":">>, <<"O", "p", "t", "i", "o", "n">> >>,
       << <<"c", "o", "r", "e", ":", ":", "r", "e", "s", "u", "l", "t", ":", ":">>, <<"R", "e", "s", "u", "l", "t">> >>,
       << <<"s", "t", "d", ":", ":", "c", "o", "l", "l", "e", "c", "t", "i", "o", "n", "s", ":", ":", "h", "a", "s", "h", ":", ":", "m", "a", "p", ":", ":">>, <<"H", "a", "s", "h", "M", "a", "p">> >>,
       << <<"s", "t", "d", ":", ":", "c", "o", "l", "l", "e", "c", "t", "i", "o", "n", "s", ":", ":", "h", "a", "s", "h", ":", ":", "s", "e", "t", ":", ":">>, <<"H", "a", "s", "h", "S", "e", "t">> >>,
       << <<"s", "t", "d", ":", ":", "s", "y", "n", "c", ":", ":", "r", "w", "l", "o", "c", "k", ":", ":">>, <<"R", "w", "L", "o", "c", "k">> >> >>

-----------------------------------------------------------------------------
(* pretty_impl.rs                                                          *)

\* str::starts_with
starts_with(s, p) == Len(p) <= Len(s) /\ SubSeq(s, 1, Len(p)) = p

\* &s[n..]
slice_from(s, n) == SubSeq(s, n + 1, Len(s))

\* the mutant of pretty_from: strips the prefix without looking at the alias
RECURSIVE pretty_from_no_alias(_, _)
pretty_from_no_alias(nm, i) ==
    IF i > Len(PrettyTable) THEN nm
    ELSE IF starts_with(nm, PrettyTable[i][1])
         THEN slice_from(nm, Len(PrettyTable[i][1]))
         ELSE pretty_from_no_alias(nm, i + 1)

\* the for loop of pretty, from table entry i on; the inner `name` shadows the
\* outer one only inside the if block, so the scan goes on with the input
RECURSIVE pretty_from(_, _)
pretty_from(nm, i) ==
    IF i > Len(PrettyTable) THEN nm
    ELSE LET bad  == PrettyTable[i][1]
             good == PrettyTable[i][2]
         IN  IF starts_with(nm, bad)
             THEN LET rest == slice_from(nm, Len(bad))
                  IN  IF starts_with(rest, good)
                      THEN rest
                      ELSE pretty_from(nm, i + 1)
             ELSE pretty_from(nm, i + 1)

pretty(nm) == pretty_from(nm, 1)

-----------------------------------------------------------------------------
(* The types the model instantiates the generic functions with.  A type is  *)
(* named by its source spelling; "&str" stands for &'a str with a           *)
(* non-'static 'a, "dyn AnyDebug" is unsized.                               *)

Types == {"i32", "u8", "Vec<i32>", "Vec<Vec<u8>>", "Box<dyn AnyDebug>", "dyn AnyDebug", "&str"}

\* T: 'static
StaticTypes == Types \ {"&str"}

\* T: Sized
SizedTypes == Types \ {"dyn AnyDebug"}

\* X: mopa::Any + fmt::Debug + Send + Sync (and Sized, to be a value)
AnyDebugTypes == StaticTypes \cap SizedTypes

\* std::any::type_name::<T>()
std_type_name(T) ==
    CASE T = "i32"               -> <<"i", "3", "2">>
      [] T = "u8"                -> <<"u", "8">>
      [] T = "Vec<i32>"          -> <<"a", "l", "l", "o", "c", ":", ":", "v", "e", "c", ":", ":", "V", "e", "c", "<", "i", "3", "2", ">">>
      [] T = "Vec<Vec<u8>>"      -> <<"a", "l", "l", "o", "c", ":", ":", "v", "e", "c", ":", ":", "V", "e", "c", "<", "a", "l", "l", "o", "c", ":", ":", "v", "e", "c", ":", ":", "V", "e", "c", "<", "u", "8", ">", ">">>
      [] T = "Box<dyn AnyDebug>" -> <<"a", "l", "l", "o", "c", ":", ":", "b", "o", "x", "e", "d", ":", ":", "B", "o", "x", "<", "d", "y", "n", " ", "e", "z", "t", "y", ":", ":", "a", "n", "y", "_", "d", "e", "b", "u", "g", ":", ":", "A", "n", "y", "D", "e", "b", "u", "g", ">">>
      [] T = "dyn AnyDebug"      -> <<"d", "y", "n", " ", "e", "z", "t", "y", ":", ":", "a", "n", "y", "_", "d", "e", "b", "u", "g", ":", ":", "A", "n", "y", "D", "e", "b", "u", "g">>
      [] T = "&str"              -> <<"&", "s", "t", "r">>

\* std::any::TypeId::of::<T>(): an opaque value, distinct for distinct types
StdTypeId_of(T) ==
    CASE T = "i32"               -> 3
      [] T = "u8"                -> 1
      [] T = "Vec<i32>"          -> 6
      [] T = "Vec<Vec<u8>>"      -> 2
      [] T = "Box<dyn AnyDebug>" -> 5
      [] T = "dyn AnyDebug"      -> 4

\* std::alloc::Layout::new::<T>() on a 64-bit target
Layout_new(T) ==
    CASE T = "i32"               -> [size |-> 4,  align |-> 4]
      [] T = "u8"                -> [size |-> 1,  align |-> 1]
      [] T = "Vec<i32>"          -> [size |-> 24, align |-> 8]
      [] T = "Vec<Vec<u8>>"      -> [size |-> 24, align |-> 8]
      [] T = "Box<dyn AnyDebug>" -> [size |-> 16, align |-> 8]
      [] T = "&str"              -> [size |-> 16, align |-> 8]

\* The addresses `NonStaticTypeId::of::<T> as usize` can evaluate to.  Which one
\* is the build's choice: identical-code folding may give the instantiations of
\* two types one address, and separate codegen units may give one type two.
Addr == 1..NumAddrs

-----------------------------------------------------------------------------
(* lib.rs: NonStaticTypeId, TypeId                                         *)

\* NonStaticTypeId::of::<T>(), with p the address of the instantiation
NonStaticTypeId_of(T, p) == p

Std(t) == [tag |-> "Std", v |-> t]
NonStatic(t) == [tag |-> "NonStatic", v |-> t]

\* the mutant of TypeId_of: the identity of one fixed type, whatever T
TypeId_of_Self(T) == Std(StdTypeId_of("dyn AnyDebug"))

TypeId_of(T) == Std(StdTypeId_of(T))

TypeId_of_every(T, p) == NonStatic(NonStaticTypeId_of(T, p))

\* the mutant of TypeId_std: the payload whatever the variant
TypeId_std_any_variant(id) == Some(id.v)

TypeId_std(id) == IF id.tag = "Std" THEN Some(id.v) ELSE None

TypeId_non_static(id) == IF id.tag = "NonStatic" THEN Some(id.v) ELSE None

\* the derives of TypeId: variants in declaration order, then the payload
discriminant(id) == IF id.tag = "Std" THEN 0 ELSE 1

\* the mutant of TypeId_eq: the payloads alone
TypeId_eq_payload_only(x, y) == x.v = y.v

TypeId_eq(x, y) == discriminant(x) = discriminant(y) /\ x.v = y.v

int_cmp(m, n) == IF m < n THEN "Less" ELSE IF m > n THEN "Greater" ELSE "Equal"

TypeId_cmp(x, y) ==
    IF discriminant(x) # discriminant(y)
    THEN int_cmp(discriminant(x), discriminant(y))
    ELSE int_cmp(x.v, y.v)

TypeId_partial_cmp(x, y) == Some(TypeId_cmp(x, y))

\* what Hash::hash(&id, state) writes to the hasher `state`
TypeId_hash(id, state) == state \o <<discriminant(id), id.v>>

-----------------------------------------------------------------------------
(* lib.rs: type_name, Ty                                                   *)

type_name(T) == pretty(std_type_name(T))

\* The field `name` holds the fn pointer type_name::<T>, modelled by its T.
Ty_of(T) == [id |-> TypeId_of(T), name |-> T]

Ty_of_every(T, p) == [id |-> TypeId_of_every(T, p), name |-> T]

Ty_name(t) == type_name(t.name)

Ty_id(t) == t.id

Ty_hash(t, state) == TypeId_hash(t.id, state)

\* the mutant of Ty_eq: a derived PartialEq, which compares the name pointer too
Ty_eq_derived(x, y) == TypeId_eq(x.id, y.id) /\ x.name = y.name

Ty_eq(x, y) == TypeId_eq(x.id, y.id)

Ty_cmp(x, y) == TypeId_cmp(x.id, y.id)

Ty_partial_cmp(x, y) == TypeId_partial_cmp(x.id, y.id)

\* impl fmt::Debug for Ty: what write!(f, "{}", (self.name)()) writes
Ty_fmt(t) == type_name(t.name)

-----------------------------------------------------------------------------
(* lib.rs: LTy                                                             *)

LTy_of(T) == [ty |-> Ty_of(T), layout |-> Layout_new(T)]

LTy_of_every(T, p) == [ty |-> Ty_of_every(T, p), layout |-> Layout_new(T)]

LTy_ty(l) == l.ty

LTy_layout(l) == l.layout

LTy_name(l) == type_name(l.ty.name)

LTy_id(l) == Ty_id(l.ty)

\* Layout's own derived PartialEq
Layout_eq(x, y) == x.size = y.size /\ x.align = y.align

\* the mutant of LTy_eq: the identity alone
LTy_eq_ty_only(x, y) == Ty_eq(x.ty, y.ty)

\* #[derive(PartialEq)] on LTy: field by field
LTy_eq(x, y) == Ty_eq(x.ty, y.ty) /\ Layout_eq(x.layout, y.layout)

-----------------------------------------------------------------------------
(* any_debug.rs                                                            *)

\* An erased value: its concrete type X, the value, and what holds the
\* dyn AnyDebug: "ref" for &dyn AnyDebug, "box" for Box<dyn AnyDebug>.
Erased(X, v, w) == [ty |-> X, val |-> v, wrap |-> w]

\* the mutant of AnyDebug_get_ty: the identity of the trait object type
AnyDebug_get_ty_dyn(Self) == Ty_of("dyn AnyDebug")

\* impl<X: ...> AnyDebug for X { fn get_ty(&self) -> Ty { Ty::of::<Self>() } }
AnyDebug_get_ty(Self) == Ty_of(Self)

\* AnyDebug::type_name, the provided method
AnyDebug_type_name(Self) == type_name(Self)

\* get_ty on a dyn AnyDebug: the vtable holds the impl of the concrete type
dyn_get_ty(h) == AnyDebug_get_ty(h.ty)

\* the mutant of get_ty_direct: the box looked through
get_ty_direct_through(h) == dyn_get_ty(h)

\* this.get_ty(): with this a Box<dyn AnyDebug> the call resolves, by auto-ref,
\* to the blanket impl for Self = Box<dyn AnyDebug>; with this a &dyn AnyDebug
\* it is the call on the trait object
get_ty_direct(h) ==
    IF h.wrap = "box" THEN AnyDebug_get_ty("Box<dyn AnyDebug>") ELSE dyn_get_ty(h)

\* (*this).get_ty()
get_ty_deref(h) == dyn_get_ty(h)

\* mopafy!(AnyDebug): <dyn AnyDebug>::is::<T>()
mopa_is(h, T) == StdTypeId_of(T) = StdTypeId_of(h.ty)

\* mopafy!(AnyDebug): <dyn AnyDebug>::downcast_ref::<T>() -> Option<&T>
downcast_ref(h, T) ==
    IF mopa_is(h, T) THEN Some([ty |-> T, val |-> h.val]) ELSE None

\* mopafy!(AnyDebug): Box<dyn AnyDebug>::downcast::<T>() -> Result<Box<T>, Box<Self>>
downcast(h, T) ==
    IF mopa_is(h, T) THEN <<"Ok", [ty |-> T, val |-> h.val]>> ELSE <<"Err", h>>

-----------------------------------------------------------------------------
(* SpecPretty: names are built from pieces and handed to pretty.           *)

ExtraPieces == { <<"<">>, <<">">>, <<"u", "8">>, <<"R", "e", "f">>, <<"c", "o", "r", "e", ":", ":">>, <<"c", "e", "l", "l", ":", ":">> }

Pieces ==
    { PrettyTable[i][1] : i \in 1..Len(PrettyTable) }
        \cup { PrettyTable[i][2] : i \in 1..Len(PrettyTable) }
        \cup ExtraPieces

InitPretty ==
    /\ name = <<>>
    /\ out = None
    /\ npieces = 0

AppendPiece ==
    /\ npieces < MaxPieces
    /\ \E p \in Pieces : name' = name \o p
    /\ npieces' = npieces + 1
    /\ out' = None

CallPretty ==
    /\ out = None
    /\ out' = Some(pretty(name))
    /\ UNCHANGED <<name, npieces>>


NextPretty ==
    \/ AppendPiece /\ UNCHANGED <<tyVars, ltyVars, anyVars>>
    \/ CallPretty /\ UNCHANGED <<tyVars, ltyVars, anyVars>>

-----------------------------------------------------------------------------
(* Spec: two Ty values are constructed and compared, hashed, named.        *)

InitTy ==
    /\ a = None
    /\ b = None
    /\ res = None

\* let a = ...; or let b = ...;
Store(slot, t) ==
    /\ slot \in {"a", "b"}
    /\ a' = IF slot = "a" THEN Some(t) ELSE a
    /\ b' = IF slot = "b" THEN Some(t) ELSE b
    /\ res' = None

CallTyOf ==
    \E slot \in {"a", "b"}, T \in StaticTypes : Store(slot, Ty_of(T))

CallTyOfEvery ==
    \E slot \in {"a", "b"}, T \in Types, p \in Addr : Store(slot, Ty_of_every(T, p))

Both == is_some(a) /\ is_some(b)

\* a == b
CallEq ==
    /\ Both
    /\ res' = <<"eq", Ty_eq(unwrap(a), unwrap(b))>>
    /\ UNCHANGED <<a, b>>

\* a.id() == b.id()
CallIdEq ==
    /\ Both
    /\ res' = <<"id_eq", TypeId_eq(Ty_id(unwrap(a)), Ty_id(unwrap(b)))>>
    /\ UNCHANGED <<a, b>>

\* a.cmp(&b)
CallCmp ==
    /\ Both
    /\ res' = <<"cmp", Ty_cmp(unwrap(a), unwrap(b))>>
    /\ UNCHANGED <<a, b>>

\* a.partial_cmp(&b)
CallPartialCmp ==
    /\ Both
    /\ res' = <<"partial_cmp", Ty_partial_cmp(unwrap(a), unwrap(b))>>
    /\ UNCHANGED <<a, b>>

\* a.hash(&mut h1); b.hash(&mut h2), each into a fresh hasher
CallHash ==
    /\ Both
    /\ res' = <<"hash", <<Ty_hash(unwrap(a), <<>>), Ty_hash(unwrap(b), <<>>)>> >>
    /\ UNCHANGED <<a, b>>

\* a.name()
CallName ==
    /\ is_some(a)
    /\ res' = <<"name", Ty_name(unwrap(a))>>
    /\ UNCHANGED <<a, b>>

\* format!("{:?}", a)
CallFmt ==
    /\ is_some(a)
    /\ res' = <<"fmt", Ty_fmt(unwrap(a))>>
    /\ UNCHANGED <<a, b>>

\* (a.id().std(), a.id().non_static())
CallAccessors ==
    /\ is_some(a)
    /\ res' = <<"accessors",
                <<TypeId_std(Ty_id(unwrap(a))), TypeId_non_static(Ty_id(unwrap(a)))>> >>
    /\ UNCHANGED <<a, b>>

NextTy ==
    \/ CallTyOf /\ UNCHANGED <<prettyVars, ltyVars, anyVars>>
    \/ CallTyOfEvery /\ UNCHANGED <<prettyVars, ltyVars, anyVars>>
    \/ CallEq /\ UNCHANGED <<prettyVars, ltyVars, anyVars>>
    \/ CallIdEq /\ UNCHANGED <<prettyVars, ltyVars, anyVars>>
    \/ CallCmp /\ UNCHANGED <<prettyVars, ltyVars, anyVars>>
    \/ CallPartialCmp /\ UNCHANGED <<prettyVars, ltyVars, anyVars>>
    \/ CallHash /\ UNCHANGED <<prettyVars, ltyVars, anyVars>>
    \/ CallName /\ UNCHANGED <<prettyVars, ltyVars, anyVars>>
    \/ CallFmt /\ UNCHANGED <<prettyVars, ltyVars, anyVars>>
    \/ CallAccessors /\ UNCHANGED <<prettyVars, ltyVars, anyVars>>

-----------------------------------------------------------------------------
(* SpecLTy: two LTy values are constructed and compared.                   *)

InitLTy ==
    /\ la = None
    /\ lb = None
    /\ lres = None

StoreL(slot, l) ==
    /\ slot \in {"la", "lb"}
    /\ la' = IF slot = "la" THEN Some(l) ELSE la
    /\ lb' = IF slot = "lb" THEN Some(l) ELSE lb
    /\ lres' = None

CallLTyOf ==
    \E slot \in {"la", "lb"}, T \in StaticTypes \cap SizedTypes : StoreL(slot, LTy_of(T))

CallLTyOfEvery ==
    \E slot \in {"la", "lb"}, T \in SizedTypes, p \in Addr :
        StoreL(slot, LTy_of_every(T, p))

BothL == is_some(la) /\ is_some(lb)

\* la == lb
CallLTyEq ==
    /\ BothL
    /\ lres' = <<"eq", LTy_eq(unwrap(la), unwrap(lb))>>
    /\ UNCHANGED <<la, lb>>

\* (la.ty(), la.layout(), la.name(), la.id())
CallLTyGetters ==
    /\ is_some(la)
    /\ lres' = <<"getters", <<LTy_ty(unwrap(la)), LTy_layout(unwrap(la)),
                              LTy_name(unwrap(la)), LTy_id(unwrap(la))>> >>
    /\ UNCHANGED <<la, lb>>

NextLTy ==
    \/ CallLTyOf /\ UNCHANGED <<prettyVars, tyVars, anyVars>>
    \/ CallLTyOfEvery /\ UNCHANGED <<prettyVars, tyVars, anyVars>>
    \/ CallLTyEq /\ UNCHANGED <<prettyVars, tyVars, anyVars>>
    \/ CallLTyGetters /\ UNCHANGED <<prettyVars, tyVars, anyVars>>

-----------------------------------------------------------------------------
(* SpecAny: a value is erased to a dyn AnyDebug, asked for its Ty and      *)
(* downcast.  got = <<how, h, ty>>, cast = <<how, T, h, result>>.          *)

InitAny ==
    /\ handle = None
    /\ got = None
    /\ cast = None

\* let f: &dyn AnyDebug = &v;  or  let f: Box<dyn AnyDebug> = Box::new(v);
Erase ==
    /\ \E X \in AnyDebugTypes, v \in 0..MaxVal, w \in {"ref", "box"} :
           handle' = Some(Erased(X, v, w))
    /\ got' = None
    /\ cast' = None

\* f.get_ty()
CallGetTyDirect ==
    /\ is_some(handle)
    /\ got' = <<"direct", unwrap(handle), get_ty_direct(unwrap(handle))>>
    /\ UNCHANGED <<handle, cast>>

\* (*f).get_ty()
CallGetTyDeref ==
    /\ is_some(handle)
    /\ got' = <<"deref", unwrap(handle), get_ty_deref(unwrap(handle))>>
    /\ UNCHANGED <<handle, cast>>

\* f.downcast_ref::<T>()
CallDowncastRef ==
    /\ is_some(handle)
    /\ \E T \in AnyDebugTypes :
           cast' = <<"downcast_ref", T, unwrap(handle), downcast_ref(unwrap(handle), T)>>
    /\ UNCHANGED <<handle, got>>

\* f.downcast::<T>(), which takes the box; Err hands it back
CallDowncast ==
    /\ is_some(handle)
    /\ unwrap(handle).wrap = "box"
    /\ \E T \in AnyDebugTypes :
           LET r == downcast(unwrap(handle), T)
           IN  /\ cast' = <<"downcast", T, unwrap(handle), r>>
               /\ handle' = IF r[1] = "Ok" THEN None ELSE handle
    /\ UNCHANGED got

NextAny ==
    \/ Erase /\ UNCHANGED <<prettyVars, tyVars, ltyVars>>
    \/ CallGetTyDirect /\ UNCHANGED <<prettyVars, tyVars, ltyVars>>
    \/ CallGetTyDeref /\ UNCHANGED <<prettyVars, tyVars, ltyVars>>
    \/ CallDowncastRef /\ UNCHANGED <<prettyVars, tyVars, ltyVars>>
    \/ CallDowncast /\ UNCHANGED <<prettyVars, tyVars, ltyVars>>

-----------------------------------------------------------------------------
(* The specifications.                                                     *)

Init == InitPretty /\ InitTy /\ InitLTy /\ InitAny

Spec == Init /\ [][NextTy]_vars

SpecPretty == Init /\ [][NextPretty]_vars

SpecLTy == Init /\ [][NextLTy]_vars

SpecAny == Init /\ [][NextAny]_vars

-----------------------------------------------------------------------------
(* The claims.                                                             *)

\* t is the value Ty::of::<T>() for the T its name pointer is instantiated with
BuiltByOf(t) == t.name \in StaticTypes /\ t = Ty_of(t.name)

\* t is a value Ty::of_every::<T>() for the T its name pointer is instantiated with
BuiltByOfEvery(t) == \E p \in Addr : t = Ty_of_every(t.name, p)

ResIs(op) == res # None /\ res[1] = op

\* C1: two handles built by Ty::of compare equal if and only if they were built
\* for the same type.
C1_OfEqualIffSameType ==
    (ResIs("eq") /\ BuiltByOf(unwrap(a)) /\ BuiltByOf(unwrap(b)))
        => (res[2] <=> unwrap(a).name = unwrap(b).name)

\* C1 witness: Ty::of of two distinct types compared, and found unequal.
C1_Witness ==
    /\ ResIs("eq")
    /\ a = Some(Ty_of("i32"))
    /\ b = Some(Ty_of("Vec<i32>"))
    /\ res[2] = FALSE

\* C2 as claimed: get_ty() called directly on a Box<dyn AnyDebug> reports the Ty
\* of the concrete type inside.
C2_DirectOnBoxReportsInner ==
    (got # None /\ got[1] = "direct" /\ got[2].wrap = "box")
        => Ty_eq(got[3], Ty_of(got[2].ty))

\* C2 as amended: get_ty() called directly on a Box<dyn AnyDebug> reports
\* Ty::of::<Box<dyn AnyDebug>>(), whatever the concrete type inside; the concrete
\* type is reported once the box is dereferenced.
C2_DirectOnBoxReportsBox ==
    /\ (got # None /\ got[1] = "direct" /\ got[2].wrap = "box")
           => Ty_eq(got[3], Ty_of("Box<dyn AnyDebug>"))
    /\ (got # None /\ got[1] = "deref" /\ got[2].wrap = "box")
           => Ty_eq(got[3], Ty_of(got[2].ty))

\* C2 witness: the direct call on a boxed i32 has answered with the box's Ty.
C2_Witness ==
    /\ got # None
    /\ got[1] = "direct"
    /\ got[2].wrap = "box"
    /\ got[2].ty = "i32"
    /\ got[3] = Ty_of("Box<dyn AnyDebug>")

\* C3: get_ty() on a dyn AnyDebug (a &dyn AnyDebug, or the dereferenced contents
\* of a box) returns a Ty equal to Ty::of::<X>() for the concrete type X.
C3_GetTyIsConcrete ==
    (got # None /\ (got[1] = "deref" \/ got[2].wrap = "ref"))
        => Ty_eq(got[3], Ty_of(got[2].ty))

\* C3 witness: get_ty() through a dereferenced box of a Vec<i32>.
C3_Witness ==
    /\ got # None
    /\ got[1] = "deref"
    /\ got[2].wrap = "box"
    /\ got[2].ty = "Vec<i32>"
    /\ Ty_eq(got[3], Ty_of("Vec<i32>"))

\* C4: a downcast to T succeeds, with the original value, if and only if the
\* handle's get_ty() equals Ty::of::<T>(), and is an explicit None / Err otherwise.
C4_DowncastIffGetTy ==
    cast # None =>
        LET T     == cast[2]
            h     == cast[3]
            r     == cast[4]
            same  == Ty_eq(get_ty_deref(h), Ty_of(T))
            value == [ty |-> h.ty, val |-> h.val]
        IN  IF cast[1] = "downcast_ref"
            THEN r = (IF same THEN Some(value) ELSE None)
            ELSE r = (IF same THEN <<"Ok", value>> ELSE <<"Err", h>>)

\* C4 witness: an i32 downcast to u8 has answered None.
C4_Witness ==
    /\ cast # None
    /\ cast[1] = "downcast_ref"
    /\ cast[2] = "u8"
    /\ cast[3].ty = "i32"
    /\ cast[4] = None

\* C5: Debug-formatting Ty::of::<Vec<Vec<u8>>>() prints "Vec<Vec<u8>>".
C5_NestedVecIsPretty ==
    (ResIs("fmt") /\ a = Some(Ty_of("Vec<Vec<u8>>")))
        => res[2] = <<"V", "e", "c", "<", "V", "e", "c", "<", "u", "8", ">", ">">>

\* the pair i of the table matches nm: nm starts with the prefix followed by the alias
PairMatches(nm, i) ==
    LET both == PrettyTable[i][1] \o PrettyTable[i][2]
    IN  Len(both) <= Len(nm) /\ \A k \in 1..Len(both) : nm[k] = both[k]

C7_ComparisonsByIdOnly ==
    Both =>
        LET x == Ty_id(unwrap(a))
            y == Ty_id(unwrap(b))
        IN  /\ ResIs("eq") => (res[2] <=> TypeId_eq(x, y))
            /\ ResIs("cmp") => res[2] = TypeId_cmp(x, y)
            /\ ResIs("partial_cmp") => res[2] = Some(Ty_cmp(unwrap(a), unwrap(b)))
            /\ ResIs("hash") => (Ty_eq(unwrap(a), unwrap(b)) => res[2][1] = res[2][2])

\* C7 witness: two handles with one id and two name pointers have compared equal.
C7_Witness ==
    /\ ResIs("eq")
    /\ Both
    /\ Ty_id(unwrap(a)) = Ty_id(unwrap(b))
    /\ unwrap(a).name # unwrap(b).name
    /\ res[2] = TRUE

\* C8: a handle built by Ty::of and a handle built by Ty::of_every are never
\* equal, their ids are never equal, and the ordering never says Equal.
C8_IdentitySpacesDisjoint ==
    (Both /\ \/ BuiltByOf(unwrap(a)) /\ BuiltByOfEvery(unwrap(b))
             \/ BuiltByOfEvery(unwrap(a)) /\ BuiltByOf(unwrap(b)))
        => /\ ResIs("eq") => res[2] = FALSE
           /\ ResIs("id_eq") => res[2] = FALSE
           /\ ResIs("cmp") => res[2] # "Equal"
           /\ ResIs("partial_cmp") => res[2] # Some("Equal")

\* C8 witness: Ty::of::<u8>() and Ty::of_every::<u8>(), with payloads that are the
\* same number, have compared unequal.
C8_Witness ==
    /\ ResIs("id_eq")
    /\ a = Some(Ty_of("u8"))
    /\ b = Some(Ty_of_every("u8", StdTypeId_of("u8")))
    /\ res[2] = FALSE

\* C9: of std() and non_static() exactly one is Some, the one of the variant the
\* id was built as, and it holds the payload the id was built with.
C9_AccessorsByVariant ==
    (ResIs("accessors") /\ is_some(a)) =>
        LET t == unwrap(a)
        IN  /\ is_some(res[2][1]) # is_some(res[2][2])
            /\ BuiltByOf(t) => res[2] = <<Some(StdTypeId_of(t.name)), None>>
            /\ \A p \in Addr :
                   t = Ty_of_every(t.name, p) => res[2] = <<None, Some(p)>>

\* C9 witness: the accessors of a NonStatic id: std() is None.
C9_Witness ==
    /\ ResIs("accessors")
    /\ a = Some(Ty_of_every("&str", 1))
    /\ res[2] = <<None, Some(1)>>

LResIs(op) == lres # None /\ lres[1] = op

\* C10 as claimed: two LTy are equal if and only if their ty() are equal.
C10_LTyEqIsTyEq ==
    (LResIs("eq") /\ BothL)
        => (lres[2] <=> Ty_eq(LTy_ty(unwrap(la)), LTy_ty(unwrap(lb))))

\* C10 as amended: two LTy are equal if and only if their ty() are equal and
\* their layouts are equal.
C10_LTyEqIsTyAndLayoutEq ==
    (LResIs("eq") /\ BothL)
        => (lres[2] <=> /\ Ty_eq(LTy_ty(unwrap(la)), LTy_ty(unwrap(lb)))
                        /\ LTy_layout(unwrap(la)) = LTy_layout(unwrap(lb)))

\* C10 witness: two LTy of one identity and two layouts have compared unequal.
C10_Witness ==
    /\ LResIs("eq")
    /\ BothL
    /\ Ty_eq(LTy_ty(unwrap(la)), LTy_ty(unwrap(lb)))
    /\ LTy_layout(unwrap(la)) # LTy_layout(unwrap(lb))
    /\ lres[2] = FALSE

=============================================================================
